---------------------------- MODULE Spec2Model ----------------------------
(***************************************************************************)
(* Model of tabell_generator.py: the league table generator.               *)
(*                                                                         *)
(* Eight specifications, one per part of the program:                      *)
(*   SpecPoints   the placement -> points lookup (PLACEMENT_TO_VALUE.get)  *)
(*   SpecSchedule extract_series_tournaments on a schedule document        *)
(*   SpecLocate   the table locators of extract_tournament_results         *)
(*   SpecParse    the row loop of extract_tournament_results, row by row   *)
(*   SpecTable    the same row loop on a whole result table                *)
(*   SpecBuild    build_results_dataframe (full rebuild) followed by       *)
(*                build_df_from_tournament_data on the same placement maps *)
(*   Spec         main: repeated incremental runs against the stored file  *)
(*   FairSpec     Spec with every step of main eventually taken            *)
(* All specifications share the variables; each one keeps the variables it *)
(* does not use at their idle values.                                      *)
(***************************************************************************)
EXTENDS Integers, Sequences, FiniteSets, TLC

VARIABLES
    pc,           \* position of the running program
    place,        \* SpecPoints: the placement looked up
    pts,          \* SpecPoints: the points returned by the lookup
    tournaments,  \* the list extract_series_tournaments returned
    i,            \* enumerate index of the tournament loop (1-based)
    all_points,   \* build_results_dataframe: player -> {key -> points}
    all_places,   \* build_results_dataframe: player -> {key -> placement}
    t_meta,       \* build_results_dataframe: per-tournament stats
    scraped,      \* the placement maps the result documents yielded, in order
    df,           \* table returned by build_results_dataframe
    df2,          \* table returned by build_df_from_tournament_data
    results,      \* extract_tournament_results: the placement map being filled
    rows_left,    \* extract_tournament_results: data rows still to be read
    data,         \* main: the loaded store {"tournaments": {url -> record}}
    disk,         \* main: content of DATA_FILE
    year,         \* main: index of the season being scraped
    run,          \* main: number of the current run
    pages,        \* main: season -> table written by df_to_html_file
    fetched,      \* main: requests and sleeps of the current run, in order
    soup,         \* the parsed document a parser works on
    target,       \* extract_tournament_results: the located result table
    log           \* messages printed and the exception that left a function

vars == <<pc, place, pts, tournaments, i, all_points, all_places, t_meta,
          scraped, df, df2, results, rows_left, data, disk, year, run,
          pages, fetched, soup, target, log>>

-----------------------------------------------------------------------------
(* Bounds of the model *)

\* Largest number of tournaments in one season's schedule.
MaxT == 2

\* TOP_N (17 in the source) scaled down so that a player can play more than
\* TOP_N tournaments within MaxT.
TOP_N == 1

\* Placements looked up in SpecPoints: -MinPlace..MaxPlace covers 1..50 and
\* values on both sides of it.
MinPlace == 3
MaxPlace == 54

\* Players and placements of the placement maps in SpecBuild.  Placement 0 is
\* a value extract_tournament_results can return (int("0")), 51 > 50 is not
\* needed here because 0 already maps to 0 points.
Players == {"A", "B"}
Places  == {0, 1, 3, 50}

-----------------------------------------------------------------------------
(* Python dict: insertion-ordered; modelled as a sequence of [k, v] *)

Range(s) == {s[j] : j \in DOMAIN s}

Keys(d) == [j \in DOMAIN d |-> d[j].k]

Has(d, key) == \E j \in DOMAIN d : d[j].k = key

Get(d, key) == d[CHOOSE j \in DOMAIN d : d[j].k = key].v

\* d.get(key, default)
GetOr(d, key, default) == IF Has(d, key) THEN Get(d, key) ELSE default

\* d.setdefault(key, value): an existing key keeps its value.  Mutant of Put.
PutKeepFirst(d, key, value) ==
    IF Has(d, key) THEN d ELSE Append(d, [k |-> key, v |-> value])

\* d[key] = value: an existing key keeps its position, a new key goes last
Put(d, key, value) ==
    IF Has(d, key)
    THEN [j \in DOMAIN d |-> IF d[j].k = key THEN [k |-> key, v |-> value] ELSE d[j]]
    ELSE Append(d, [k |-> key, v |-> value])

\* d.setdefault(outer, {})[inner] = value
PutNested(d, outer, inner, value) ==
    Put(d, outer, Put(GetOr(d, outer, <<>>), inner, value))

-----------------------------------------------------------------------------
(* PointsConverter *)

PLACEMENT_TO_VALUE ==
    <<100, 85, 75, 65, 60, 55, 50, 48, 46, 44,
      42, 40, 39, 38, 37, 36, 35, 34, 33, 32,
      31, 30, 29, 28, 27, 26, 25, 24, 23, 22,
      21, 20, 19, 18, 17, 16, 15, 14, 13, 12,
      11, 10, 9, 8, 7, 6, 5, 4, 3, 2>>

\* Mutant of Points: the last table entry is treated as out of range.
PointsShortTable(p) ==
    IF p \in 1..49 THEN PLACEMENT_TO_VALUE[p] ELSE 0

\* PLACEMENT_TO_VALUE.get(place, 0)
Points(p) ==
    IF p \in DOMAIN PLACEMENT_TO_VALUE THEN PLACEMENT_TO_VALUE[p] ELSE 0


-----------------------------------------------------------------------------
(* Sequences *)

RECURSIVE SumSeq(_)
SumSeq(s) == IF s = <<>> THEN 0 ELSE Head(s) + SumSeq(Tail(s))

RECURSIVE Flatten(_)
Flatten(ss) == IF ss = <<>> THEN <<>> ELSE Head(ss) \o Flatten(Tail(ss))

\* First occurrences, in order
RECURSIVE Unique(_)
Unique(s) ==
    IF s = <<>> THEN <<>>
    ELSE LET init == Unique(SubSeq(s, 1, Len(s) - 1))
             last == s[Len(s)]
         IN  IF last \in Range(init) THEN init ELSE Append(init, last)

\* Strict lexicographic "greater" on integer tuples of equal length
RECURSIVE LexGreater(_, _)
LexGreater(a, b) ==
    /\ a # <<>>
    /\ \/ Head(a) > Head(b)
       \/ Head(a) = Head(b) /\ LexGreater(Tail(a), Tail(b))

\* Stable descending sort of s by the tuple SortKey[x]: x is placed
\* before the first element whose key is strictly smaller.
RECURSIVE InsertDesc(_, _, _)
InsertDesc(sorted, x, SortKey) ==
    IF sorted = <<>> THEN <<x>>
    ELSE IF LexGreater(SortKey[x], SortKey[Head(sorted)])
         THEN <<x>> \o sorted
         ELSE <<Head(sorted)>> \o InsertDesc(Tail(sorted), x, SortKey)

RECURSIVE SortDesc(_, _)
SortDesc(s, SortKey) ==
    IF s = <<>> THEN <<>>
    ELSE InsertDesc(SortDesc(SubSeq(s, 1, Len(s) - 1), SortKey), s[Len(s)], SortKey)

-----------------------------------------------------------------------------
(* pandas.DataFrame: [index, columns, cell]; a missing value (NaN) is <<>>,  *)
(* a present value v of an object/float frame is <<v>>                       *)

NaN == <<>>

\* The column label f"#{i}"
Key(n) == <<"#", n>>

\* pd.DataFrame.from_dict(d, orient="index") for a dict of dicts.  pandas
\* turns d into {column -> {row -> value}} walking the rows and their keys
\* in order, so the columns come in first-seen order; the index is the
\* union of the rows of the columns, in that column order.
from_dict(d) ==
    LET columns  == Unique(Flatten([j \in DOMAIN d |-> Keys(d[j].v)]))
        RowsOf(c) == SelectSeq(Keys(d), LAMBDA r : Has(Get(d, r), c))
        index    == Unique(Flatten([j \in DOMAIN columns |-> RowsOf(columns[j])]))
    IN  [index   |-> index,
         columns |-> columns,
         cell    |-> [r \in Range(index) |->
                        [c \in Range(columns) |->
                            IF Has(Get(d, r), c) THEN <<Get(Get(d, r), c)>> ELSE NaN]]]

\* .fillna(0).astype(int)
fillna_int(f) ==
    [f EXCEPT !.cell = [r \in Range(f.index) |->
                          [c \in Range(f.columns) |->
                              IF f.cell[r][c] = NaN THEN 0 ELSE f.cell[r][c][1]]]]

\* df[c] = value, for a label c that is not a column yet: appended last
AddColumn(f, c, value) ==
    [f EXCEPT !.columns = Append(f.columns, c),
              !.cell    = [r \in Range(f.index) |->
                             [cc \in Range(f.columns) \cup {c} |->
                                 IF cc = c THEN value ELSE f.cell[r][cc]]]]

\* for c in league_cols: if c not in df.columns: df[c] = fill
RECURSIVE AddMissing(_, _, _)
AddMissing(f, cols, fill) ==
    IF cols = <<>> THEN f
    ELSE AddMissing(IF Head(cols) \in Range(f.columns) THEN f
                    ELSE AddColumn(f, Head(cols), fill),
                    Tail(cols), fill)

\* df[:] = df[league_cols].  A slice key sets through iloc, which does not
\* align a DataFrame value on labels: the j-th column of df receives the
\* values of league_cols[j], and the labels of df stay where they are.
SetAll(f, league_cols) ==
    [f EXCEPT !.cell = [r \in Range(f.index) |->
                          [c \in Range(f.columns) |->
                              LET j == CHOOSE n \in DOMAIN f.columns : f.columns[n] = c
                              IN  f.cell[r][league_cols[j]]]]]

league_cols_of(n) == [j \in 1..n |-> Key(j)]

\* Step 3 of build_results_dataframe: the points frame
pts_df_of(points, league_cols) ==
    SetAll(AddMissing(fillna_int(from_dict(points)), league_cols, 0), league_cols)

\* Step 3 of build_results_dataframe: the placements frame
plc_df_of(places, league_cols) ==
    SetAll(AddMissing(from_dict(places), league_cols, NaN), league_cols)

-----------------------------------------------------------------------------
(* Player-level metrics (step 4 of build_results_dataframe; the same         *)
(* functions are repeated verbatim in build_df_from_tournament_data)         *)

\* row[league_cols] of the points frame, as a sequence
PointsRow(f, name, league_cols) ==
    [j \in DOMAIN league_cols |-> f.cell[name][league_cols[j]]]

\* int((row[league_cols] > 0).sum())
count_played(f, name, league_cols) ==
    Len(SelectSeq(PointsRow(f, name, league_cols), LAMBDA v : v > 0))

\* round(num / den, 2) in hundredths; a tie goes to the even hundredth
Round2(num, den) ==
    LET q == (100 * num) \div den
        r == (100 * num) % den
    IN  IF 2 * r > den \/ (2 * r = den /\ q % 2 = 1) THEN q + 1 ELSE q

\* Mutant of avg_points_when_played: the mean is taken over every column.
avg_points_over_all_columns(f, name, league_cols) ==
    IF league_cols = <<>> THEN 0
    ELSE Round2(SumSeq(PointsRow(f, name, league_cols)), Len(league_cols))

\* float(round(played_vals.mean(), 2)) if len(played_vals) else 0.0,
\* in hundredths
avg_points_when_played(f, name, league_cols) ==
    LET played_vals == SelectSeq(PointsRow(f, name, league_cols), LAMBDA v : v > 0)
    IN  IF Len(played_vals) > 0
        THEN Round2(SumSeq(played_vals), Len(played_vals))
        ELSE 0

\* Mutant of count_wins: a podium place counts as a win.
count_wins_podium(plc, name, league_cols) ==
    Cardinality({j \in DOMAIN league_cols :
        LET v == plc.cell[name][league_cols[j]] IN v # NaN /\ v[1] <= 3})

\* int((row == 1).sum()); NaN == 1 is False
count_wins(plc, name, league_cols) ==
    Cardinality({j \in DOMAIN league_cols :
        LET v == plc.cell[name][league_cols[j]] IN v # NaN /\ v[1] = 1})

\* int((row <= 3).sum()); NaN <= 3 is False
count_podiums(plc, name, league_cols) ==
    Cardinality({j \in DOMAIN league_cols :
        LET v == plc.cell[name][league_cols[j]] IN v # NaN /\ v[1] <= 3})

\* sorted(vals, reverse=True) for integers
SortedReverse(vals) ==
    SortDesc([j \in DOMAIN vals |-> j], [j \in DOMAIN vals |-> <<vals[j]>>])

\* Mutant of top_n_sum: the first n played values, not the n largest.
top_n_sum_unsorted(f, name, league_cols, n) ==
    LET vals == SelectSeq(PointsRow(f, name, league_cols), LAMBDA v : v > 0)
    IN  SumSeq(SubSeq(vals, 1, IF Len(vals) < n THEN Len(vals) ELSE n))

\* vals = sorted([int(v) for v in row[league_cols] if v > 0], reverse=True)
\* return int(sum(vals[:n]))
top_n_sum(f, name, league_cols, n) ==
    LET played == SelectSeq(PointsRow(f, name, league_cols), LAMBDA v : v > 0)
        order  == SortedReverse(played)
        vals   == [j \in DOMAIN order |-> played[order[j]]]
    IN  SumSeq(SubSeq(vals, 1, IF Len(vals) < n THEN Len(vals) ELSE n))

\* Mutant of Clip: the cap is not applied.
ClipNothing(v, upper) == v

\* df["Spilt"].clip(upper=TOP_N) and min(r["Spilt"], TOP_N)
Clip(v, upper) == IF v > upper THEN upper ELSE v

\* df[league_cols].max(axis=1)
best_single(f, name, league_cols) ==
    LET row == PointsRow(f, name, league_cols)
    IN  CHOOSE m \in Range(row) : \A v \in Range(row) : v <= m

\* The row of the master frame for one player, before sorting
MetricsRow(f, plc, name, league_cols) ==
    [name     |-> name,
     Spilt    |-> count_played(f, name, league_cols),
     Snitt    |-> avg_points_when_played(f, name, league_cols),
     Topp     |-> top_n_sum(f, name, league_cols, TOP_N),
     Tellende |-> Clip(count_played(f, name, league_cols), TOP_N),
     Seire    |-> count_wins(plc, name, league_cols),
     Pall     |-> count_podiums(plc, name, league_cols),
     cols     |-> [c \in Range(league_cols) |-> f.cell[name][c]]]

-----------------------------------------------------------------------------
(* Sorting and ranking *)

\* sort_values(["Topp 17", "Seire", "_best_single", "Snitt"], all descending)
RebuildSortKey(f, row, league_cols) ==
    <<row.Topp, row.Seire, best_single(f, row.name, league_cols), row.Snitt>>

\* sort_values(by=["Topp 17", "Seire"] + league_cols, all descending)
PrescrapedSortKey(f, row, league_cols) ==
    <<row.Topp, row.Seire>> \o PointsRow(f, row.name, league_cols)

\* pandas sorts several keys with a stable lexsort: rows with equal keys
\* keep the order of the index
sort_values(rows, SortKey) ==
    LET order == SortDesc([j \in DOMAIN rows |-> j], SortKey)
    IN  [j \in DOMAIN order |-> rows[order[j]]]

\* Mutant of InsertRank: competition ranking, equal "Topp" share a rank.
InsertRankShared(rows) ==
    [j \in DOMAIN rows |->
        [name     |-> rows[j].name,  Spilt |-> rows[j].Spilt,
         Snitt    |-> rows[j].Snitt, Topp  |-> rows[j].Topp,
         Tellende |-> rows[j].Tellende, Seire |-> rows[j].Seire,
         Pall     |-> rows[j].Pall,  cols  |-> rows[j].cols,
         Rank     |-> 1 + Cardinality({n \in DOMAIN rows : rows[n].Topp > rows[j].Topp})]]

\* df.insert(0, "Rank", range(1, len(df) + 1))
InsertRank(rows) ==
    [j \in DOMAIN rows |->
        [name     |-> rows[j].name,  Spilt |-> rows[j].Spilt,
         Snitt    |-> rows[j].Snitt, Topp  |-> rows[j].Topp,
         Tellende |-> rows[j].Tellende, Seire |-> rows[j].Seire,
         Pall     |-> rows[j].Pall,  cols  |-> rows[j].cols,
         Rank     |-> j]]

-----------------------------------------------------------------------------
(* Accumulation of one tournament's placement map *)

\* for player, place in results.items():
\*     all_points.setdefault(player, {})[key] = PLACEMENT_TO_VALUE.get(place, 0)
RECURSIVE AddPoints(_, _, _)
AddPoints(points, key, res) ==
    IF res = <<>> THEN points
    ELSE AddPoints(PutNested(points, Head(res).k, key, Points(Head(res).v)),
                   key, Tail(res))

\* for player, place in results.items():
\*     all_places.setdefault(player, {})[key] = place
RECURSIVE AddPlaces(_, _, _)
AddPlaces(places, key, res) ==
    IF res = <<>> THEN places
    ELSE AddPlaces(PutNested(places, Head(res).k, key, Head(res).v),
                   key, Tail(res))

\* The last entry with the lowest placement.  Mutant of FirstMin.
LastMin(res) ==
    res[CHOOSE j \in DOMAIN res :
            /\ \A n \in DOMAIN res : res[j].v <= res[n].v
            /\ \A n \in (j + 1)..Len(res) : res[n].v > res[j].v]

\* min(results.items(), key=lambda kv: kv[1]) of main: the first entry with
\* the lowest placement.  Only for a non-empty map (min raises otherwise).
FirstMin(res) ==
    res[CHOOSE j \in DOMAIN res :
            /\ \A n \in DOMAIN res : res[j].v <= res[n].v
            /\ \A n \in 1..(j - 1) : res[n].v > res[j].v]

\* The winner loop of build_results_dataframe from entry j on: best is <<>>
\* for (None, math.inf) and <<entry>> once an entry was taken; an entry
\* replaces the winner only if its place is strictly lower
RECURSIVE winner_loop(_, _, _)
winner_loop(res, j, best) ==
    IF j > Len(res) THEN best
    ELSE winner_loop(res, j + 1,
                     IF best = <<>> \/ res[j].v < best[1].v
                     THEN <<res[j]>> ELSE best)

\* Mutant of TournamentStats: only the players with points are counted.
TournamentStatsScoring(key, t, res) ==
    [key           |-> key,
     name          |-> t.name,
     date          |-> t.date,
     url           |-> t.url,
     participants  |-> Len(SelectSeq(res, LAMBDA e : Points(e.v) > 0)),
     winner        |-> IF res = <<>> THEN "-" ELSE FirstMin(res).k,
     winner_points |-> IF res = <<>> THEN 0 ELSE Points(FirstMin(res).v)]

\* Tournament-level stats of build_results_dataframe
TournamentStats(key, t, res) ==
    [key           |-> key,
     name          |-> t.name,
     date          |-> t.date,
     url           |-> t.url,
     participants  |-> Len(res),
     winner        |-> LET w == winner_loop(res, 1, <<>>)
                       IN  IF w = <<>> THEN "-" ELSE w[1].k,
     winner_points |-> LET w == winner_loop(res, 1, <<>>)
                       IN  IF w = <<>> THEN 0 ELSE Points(w[1].v)]

-----------------------------------------------------------------------------
(* The two table builders *)

\* Steps 3-7 of build_results_dataframe
RebuildTable(points, places, n) ==
    LET league_cols == league_cols_of(n)
        pts_df == pts_df_of(points, league_cols)
        plc_df == plc_df_of(places, league_cols)
        rows   == [j \in DOMAIN pts_df.index |->
                     MetricsRow(pts_df, plc_df, pts_df.index[j], league_cols)]
        SortKey == [j \in DOMAIN rows |-> RebuildSortKey(pts_df, rows[j], league_cols)]
    IN  [columns |-> league_cols,
         rows    |-> InsertRank(sort_values(rows, SortKey)),
         meta    |-> <<>>]

\* Mutant of sorted_by_date: the stored order is kept.
stored_order(tl) == tl

\* sorted(tournaments, key=lambda t: t["date"]): stable, ascending
sorted_by_date(tl) ==
    LET order == SortDesc([j \in DOMAIN tl |-> j],
                          [j \in DOMAIN tl |->
                              <<0 - tl[j].date[1], 0 - tl[j].date[2],
                                0 - tl[j].date[3]>>])
    IN  [j \in DOMAIN order |-> tl[order[j]]]

\* The accumulation loop of build_df_from_tournament_data over the sorted
\* list: all_points
RECURSIVE StoredPoints(_, _, _)
StoredPoints(acc, t_sorted, n) ==
    IF n > Len(t_sorted) THEN acc
    ELSE StoredPoints(AddPoints(acc, Key(n), t_sorted[n].results), t_sorted, n + 1)

\* The same loop: all_places
RECURSIVE StoredPlaces(_, _, _)
StoredPlaces(acc, t_sorted, n) ==
    IF n > Len(t_sorted) THEN acc
    ELSE StoredPlaces(AddPlaces(acc, Key(n), t_sorted[n].results), t_sorted, n + 1)

\* build_df_from_tournament_data: meta["tournaments"]
PrescrapedMeta(tl) ==
    LET tournaments_sorted == sorted_by_date(tl)
    IN  [j \in DOMAIN tournaments_sorted |->
            [key           |-> Key(j),
             name          |-> tournaments_sorted[j].name,
             date          |-> tournaments_sorted[j].date,
             url           |-> tournaments_sorted[j].url,
             participants  |-> tournaments_sorted[j].participants,
             winner        |-> tournaments_sorted[j].winner,
             winner_points |-> tournaments_sorted[j].winner_points]]

\* build_df_from_tournament_data: the table
PrescrapedTable(tl) ==
    LET tournaments_sorted == sorted_by_date(tl)
        points == StoredPoints(<<>>, tournaments_sorted, 1)
        places == StoredPlaces(<<>>, tournaments_sorted, 1)
        league_cols == league_cols_of(Len(tournaments_sorted))
        pts_df == pts_df_of(points, league_cols)
        plc_df == plc_df_of(places, league_cols)
        rows   == [j \in DOMAIN pts_df.index |->
                     MetricsRow(pts_df, plc_df, pts_df.index[j], league_cols)]
        SortKey == [j \in DOMAIN rows |-> PrescrapedSortKey(pts_df, rows[j], league_cols)]
    IN  [columns |-> league_cols,
         rows    |-> InsertRank(sort_values(rows, SortKey)),
         meta    |-> PrescrapedMeta(tl)]

\* The record main stores for a scraped tournament (results not empty)
StoredRecord(season, t, res) ==
    [season        |-> season,
     name          |-> t.name,
     date          |-> t.date,
     url           |-> t.url,
     participants  |-> Len(res),
     winner        |-> FirstMin(res).k,
     winner_points |-> Points(FirstMin(res).v),
     results       |-> res]

-----------------------------------------------------------------------------
(* Idle values of the variable groups *)

points_vars  == <<place, pts>>
build_vars   == <<tournaments, i, all_points, all_places, t_meta, scraped, df, df2>>
parse_vars   == <<results, rows_left>>
main_vars    == <<data, disk, year, run, pages, fetched>>
doc_vars     == <<soup, target>>

NoTable == [columns |-> <<>>, rows |-> <<>>, meta |-> <<>>]

PointsIdle == place = 0 /\ pts = 0
BuildIdle  == /\ tournaments = <<>> /\ i = 0
              /\ all_points = <<>> /\ all_places = <<>> /\ t_meta = <<>>
              /\ scraped = <<>> /\ df = NoTable /\ df2 = NoTable
ParseIdle  == results = <<>> /\ rows_left = 0
MainIdle   == /\ data = <<>> /\ disk = <<>> /\ year = 0 /\ run = 0
              /\ pages = <<>> /\ fetched = <<>>
DocIdle    == soup = <<>> /\ target = <<>>
LogIdle    == log = <<>>

-----------------------------------------------------------------------------
(* SpecPoints: one lookup of a placement *)

PointsInit ==
    /\ pc = "lookup"
    /\ place \in (0 - MinPlace)..MaxPlace
    /\ pts = 0
    /\ BuildIdle /\ ParseIdle /\ MainIdle /\ DocIdle /\ LogIdle

\* pts = PLACEMENT_TO_VALUE.get(place, 0)
Lookup ==
    /\ pc = "lookup"
    /\ pts' = Points(place)
    /\ pc' = "looked"
    /\ UNCHANGED <<place, build_vars, parse_vars, main_vars, doc_vars, log>>

PointsNext == Lookup

SpecPoints == PointsInit /\ [][PointsNext]_vars

-----------------------------------------------------------------------------
(* SpecBuild: build_results_dataframe, then build_df_from_tournament_data   *)
(* on the records main stores for the same placement maps                   *)

\* The j-th tournament of the season's schedule.  Tournaments 2 and 3 are
\* played on the same day.
Tournament(j) ==
    [date |-> <<2002, 9, IF j = 3 THEN 2 ELSE j>>,
     name |-> <<"T", j>>,
     url  |-> <<"u", j>>]

\* The placement maps a result document can yield: every ordered map of
\* distinct players to placements
ResultMaps ==
    {r \in UNION {[1..n -> [k : Players, v : Places]] : n \in 0..Cardinality(Players)} :
        \A a, b \in DOMAIN r : a # b => r[a].k # r[b].k}

BuildInit ==
    /\ pc = "schedule"
    /\ BuildIdle /\ PointsIdle /\ ParseIdle /\ MainIdle /\ DocIdle /\ LogIdle

\* tournaments = extract_series_tournaments(...): a schedule of n
\* tournaments, sorted by date
ListTournaments ==
    /\ pc = "schedule"
    /\ \E n \in 0..MaxT : tournaments' = [j \in 1..n |-> Tournament(j)]
    /\ i' = 1
    /\ pc' = "loop"
    /\ UNCHANGED <<all_points, all_places, t_meta, scraped, df, df2,
                   points_vars, parse_vars, main_vars,
                   doc_vars, log>>

\* One iteration of the loop of build_results_dataframe whose
\* extract_tournament_results call returns the placement map res
Scrape ==
    /\ pc = "loop"
    /\ i <= Len(tournaments)
    /\ \E res \in ResultMaps :
        /\ all_points' = AddPoints(all_points, Key(i), res)
        /\ all_places' = AddPlaces(all_places, Key(i), res)
        /\ t_meta' = Append(t_meta, TournamentStats(Key(i), tournaments[i], res))
        /\ scraped' = Append(scraped, res)
    /\ i' = i + 1
    /\ UNCHANGED <<pc, tournaments, df, df2, points_vars, parse_vars, main_vars,
                   doc_vars, log>>

\* Mutant of ScrapeRaises: the failure is reported and the loop goes on.
ScrapeRaisesAndGoesOn ==
    /\ pc = "loop"
    /\ i <= Len(tournaments)
    /\ log' = Append(log, [kind |-> "RuntimeError", name |-> tournaments[i].name])
    /\ i' = i + 1
    /\ UNCHANGED <<pc, tournaments, all_points, all_places, t_meta, scraped, df, df2,
                   points_vars, parse_vars, main_vars, doc_vars>>

\* extract_tournament_results raises: the RuntimeError naming the tournament
\* leaves build_results_dataframe
ScrapeRaises ==
    /\ pc = "loop"
    /\ i <= Len(tournaments)
    /\ log' = Append(log, [kind |-> "RuntimeError", name |-> tournaments[i].name])
    /\ pc' = "raised"
    /\ UNCHANGED <<build_vars, points_vars, parse_vars, main_vars, doc_vars>>

\* Steps 3-8 of build_results_dataframe, after the loop
FinishRebuild ==
    /\ pc = "loop"
    /\ i > Len(tournaments)
    /\ df' = [RebuildTable(all_points, all_places, Len(tournaments))
                EXCEPT !.meta = t_meta]
    /\ pc' = "rebuilt"
    /\ UNCHANGED <<tournaments, i, all_points, all_places, t_meta, scraped,
                   df2, points_vars, parse_vars, main_vars,
                   doc_vars, log>>

\* The list main hands to build_df_from_tournament_data for this season
StoredList ==
    [j \in DOMAIN scraped |-> StoredRecord("2002/2003", tournaments[j], scraped[j])]

\* Orders in which the store holds the records of a season: the order of
\* the schedule, and the reverse order (every tournament scraped in a later
\* run than its successor)
Orders(n) == {[j \in 1..n |-> j], [j \in 1..n |-> n + 1 - j]}

\* build_df_from_tournament_data(t_list) on the stored records of the same
\* placement maps, in an order the store can hold them; main stores no
\* record for an empty map and builds no table for an empty list
BuildFromData ==
    /\ pc = "rebuilt"
    /\ scraped # <<>>
    /\ \A j \in DOMAIN scraped : scraped[j] # <<>>
    /\ \E order \in Orders(Len(scraped)) :
          df2' = PrescrapedTable([j \in DOMAIN order |-> StoredList[order[j]]])
    /\ pc' = "prescraped"
    /\ UNCHANGED <<tournaments, i, all_points, all_places, t_meta, scraped, df,
                   points_vars, parse_vars, main_vars,
                   doc_vars, log>>

BuildNext ==
    \/ ListTournaments
    \/ Scrape
    \/ ScrapeRaises
    \/ FinishRebuild
    \/ BuildFromData

SpecBuild == BuildInit /\ [][BuildNext]_vars

-----------------------------------------------------------------------------
(* SpecParse: the row loop of extract_tournament_results.  A text is the    *)
(* sequence of its characters; "sup2" stands for the character U+00B2       *)
(* (superscript two), a digit for str.isdigit that int() does not accept.   *)

\* Largest number of rows of the located table
MaxRows == 2

AsciiDigits == {"0", "1", "2", "3", "4", "5", "6", "7", "8", "9"}

DigitValue(c) ==
    CASE c = "0" -> 0 [] c = "1" -> 1 [] c = "2" -> 2 [] c = "3" -> 3
      [] c = "4" -> 4 [] c = "5" -> 5 [] c = "6" -> 6 [] c = "7" -> 7
      [] c = "8" -> 8 [] c = "9" -> 9

\* The texts get_text(strip=True) returns for the cells tried as placement
PlaceTexts ==
    {<<"1", ".">>, <<"2">>, <<"1", "0", ".">>, <<"0", ".">>, <<"-", "1">>,
     <<"x">>, <<>>, <<"sup2">>}

\* The anchor texts tried as player names, before get_text strips them
NameTexts ==
    {<<"A">>, <<"B">>, <<" ", "A", " ", " ", "B">>, <<"A", " ", "B">>, <<" ">>}

\* The href values tried
Hrefs == {"player.aspx?id=7", "Player.aspx?ID=7", "tournament.aspx?id=7"}

\* "player.aspx" in a["href"].lower()
IsPlayerHref(href) == href \in {"player.aspx?id=7", "Player.aspx?ID=7"}

\* A <td>: plain text, or the first <a href=...> in it with its text
Cells ==
    [kind : {"text"}, text : PlaceTexts] \cup
    [kind : {"a"}, href : Hrefs, text : NameTexts]

\* A <tr>: header marker (LBPos / LBName anchor or a 'head' class) and cells
TableRows ==
    [head : BOOLEAN, cols : UNION {[1..n -> Cells] : n \in 0..3}]

\* str.strip() for the whitespace character " "
RECURSIVE LStrip(_)
LStrip(t) == IF t # <<>> /\ Head(t) = " " THEN LStrip(Tail(t)) ELSE t

RECURSIVE RStrip(_, _)
RStrip(t, c) ==
    IF t # <<>> /\ t[Len(t)] = c THEN RStrip(SubSeq(t, 1, Len(t) - 1), c) ELSE t

\* td.get_text(strip=True)
get_text(cell) == RStrip(LStrip(cell.text), " ")

\* Does int(t) return (optional sign, then one or more ASCII digits)?
IntParses(t) ==
    LET digits == IF t # <<>> /\ Head(t) \in {"-", "+"} THEN Tail(t) ELSE t
    IN  digits # <<>> /\ \A j \in DOMAIN digits : digits[j] \in AsciiDigits

RECURSIVE DecimalValue(_)
DecimalValue(digits) ==
    IF digits = <<>> THEN 0
    ELSE 10 * DecimalValue(SubSeq(digits, 1, Len(digits) - 1))
            + DigitValue(digits[Len(digits)])

\* int(t), for a text with IntParses(t)
IntValue(t) ==
    IF Head(t) = "-" THEN 0 - DecimalValue(Tail(t))
    ELSE IF Head(t) = "+" THEN DecimalValue(Tail(t))
    ELSE DecimalValue(t)

\* str.isdigit()
isdigit(t) ==
    t # <<>> /\ \A j \in DOMAIN t : t[j] \in AsciiDigits \cup {"sup2"}

\* " ".join(player_name.split())
RECURSIVE NormalizeSpaces(_)
NormalizeSpaces(t) ==
    IF t = <<>> THEN <<>>
    ELSE IF Head(t) = " "
         THEN LET rest == NormalizeSpaces(LStrip(t))
              IN  IF rest = <<>> THEN <<>> ELSE <<" ">> \o rest
         ELSE <<Head(t)>> \o NormalizeSpaces(Tail(t))

\* The placement of a row: [kind |-> "int", v |-> n], "none" (the row
\* cannot be read) or "raise" (a ValueError leaves the function)
PlaceOf(cols) ==
    LET place_text == RStrip(get_text(cols[1]), ".")
        txt(j)  == RStrip(get_text(cols[j]), ".")
        first   == IF isdigit(txt(1)) THEN 1
                   ELSE IF isdigit(txt(2)) THEN 2 ELSE 0
    IN  IF IntParses(place_text) THEN [kind |-> "int", v |-> IntValue(place_text)]
        ELSE IF first = 0 THEN [kind |-> "none", v |-> 0]
        ELSE IF IntParses(txt(first)) THEN [kind |-> "int", v |-> IntValue(txt(first))]
        ELSE [kind |-> "raise", v |-> 0]

\* The first cell whose first <a href> points to player.aspx, or 0
PlayerCell(cols) ==
    IF \E j \in DOMAIN cols : cols[j].kind = "a" /\ IsPlayerHref(cols[j].href)
    THEN CHOOSE j \in DOMAIN cols :
            /\ cols[j].kind = "a" /\ IsPlayerHref(cols[j].href)
            /\ \A n \in 1..(j - 1) : ~(cols[n].kind = "a" /\ IsPlayerHref(cols[n].href))
    ELSE 0

\* What the two loops of extract_tournament_results do with one <tr>:
\* "skip", "raise", or "put" results[name] = place
RowOutcome(row) ==
    LET cols == row.cols
        Skip == [kind |-> "skip", name |-> <<>>, place |-> 0]
    IN  IF cols = <<>> \/ row.head \/ Len(cols) < 2 THEN Skip
        ELSE LET p == PlaceOf(cols)
                 a == PlayerCell(cols)
             IN  IF p.kind = "none" THEN Skip
                 ELSE IF p.kind = "raise"
                      THEN [kind |-> "raise", name |-> <<>>, place |-> 0]
                 ELSE IF a = 0 \/ get_text(cols[a]) = <<>> THEN Skip
                 ELSE [kind  |-> "put",
                       name  |-> NormalizeSpaces(get_text(cols[a])),
                       place |-> p.v]

ParseInit ==
    /\ pc = "rows"
    /\ results = <<>>
    /\ rows_left \in 0..MaxRows
    /\ PointsIdle /\ BuildIdle /\ MainIdle /\ DocIdle /\ LogIdle

\* A row that is skipped: a header row, a row with fewer than two cells,
\* without a placement, or without a named player link
SkipRow ==
    /\ pc = "rows" /\ rows_left > 0
    /\ \E row \in TableRows : RowOutcome(row).kind = "skip"
    /\ rows_left' = rows_left - 1
    /\ UNCHANGED <<pc, results, points_vars, build_vars, main_vars, doc_vars, log>>

\* A row that is recorded: results[player_name] = place
RecordRow ==
    /\ pc = "rows" /\ rows_left > 0
    /\ \E row \in TableRows :
        /\ RowOutcome(row).kind = "put"
        /\ results' = Put(results, RowOutcome(row).name, RowOutcome(row).place)
    /\ rows_left' = rows_left - 1
    /\ UNCHANGED <<pc, points_vars, build_vars, main_vars, doc_vars, log>>

\* A row whose int(txt) raises ValueError in the fallback loop
RowRaises ==
    /\ pc = "rows" /\ rows_left > 0
    /\ \E row \in TableRows : RowOutcome(row).kind = "raise"
    /\ pc' = "raised"
    /\ UNCHANGED <<results, rows_left, points_vars, build_vars, main_vars, doc_vars, log>>

\* return results
ReturnResults ==
    /\ pc = "rows" /\ rows_left = 0
    /\ pc' = "returned"
    /\ UNCHANGED <<results, rows_left, points_vars, build_vars, main_vars, doc_vars, log>>

ParseNext ==
    \/ SkipRow
    \/ RecordRow
    \/ RowRaises
    \/ ReturnResults

SpecParse == ParseInit /\ [][ParseNext]_vars

-----------------------------------------------------------------------------
(* SpecTable: the row loop of extract_tournament_results on a whole table. *)
(* target holds the <tr> elements of the located table, in document order, *)
(* and rows_left of them are still to be read.                             *)

\* <tr><td>place_text</td><td><a href="player.aspx?id=7">name_text</a></td></tr>
PlayerRow(place_text, name_text) ==
    [head |-> FALSE,
     cols |-> <<[kind |-> "text", text |-> place_text],
                [kind |-> "a", href |-> "player.aspx?id=7", text |-> name_text]>>]

\* The rows the tables are made of: player rows, a header row and a row
\* without a player link
DataRows ==
    {PlayerRow(p, n) : p \in {<<"1", ".">>, <<"2">>, <<"x">>, <<"sup2">>},
                       n \in {<<"A">>, <<" ", "A", " ", " ", "B">>, <<"A", " ", "B">>}}
    \cup {[head |-> TRUE,
           cols |-> <<[kind |-> "text", text |-> <<"x">>],
                      [kind |-> "text", text |-> <<"x">>]>>],
          [head |-> FALSE,
           cols |-> <<[kind |-> "text", text |-> <<"1", ".">>],
                      [kind |-> "text", text |-> <<"x">>]>>]}

\* The row the loop reads next
tr == target[Len(target) - rows_left + 1]

TableInit ==
    /\ pc = "rows"
    /\ results = <<>>
    /\ target \in UNION {[1..n -> DataRows] : n \in 0..MaxRows}
    /\ rows_left = Len(target)
    /\ soup = <<>>
    /\ PointsIdle /\ BuildIdle /\ MainIdle /\ LogIdle

\* The next row of the table is skipped
TableRowSkipped ==
    /\ pc = "rows" /\ rows_left > 0
    /\ RowOutcome(tr).kind = "skip"
    /\ rows_left' = rows_left - 1
    /\ UNCHANGED <<pc, results, points_vars, build_vars, main_vars, doc_vars, log>>

\* The next row of the table is recorded: results[player_name] = place
TableRowRecorded ==
    /\ pc = "rows" /\ rows_left > 0
    /\ RowOutcome(tr).kind = "put"
    /\ results' = Put(results, RowOutcome(tr).name, RowOutcome(tr).place)
    /\ rows_left' = rows_left - 1
    /\ UNCHANGED <<pc, points_vars, build_vars, main_vars, doc_vars, log>>

\* int(txt) raises ValueError on the next row of the table
TableRowRaises ==
    /\ pc = "rows" /\ rows_left > 0
    /\ RowOutcome(tr).kind = "raise"
    /\ pc' = "raised"
    /\ UNCHANGED <<results, rows_left, points_vars, build_vars, main_vars, doc_vars, log>>

\* return results, after the last row
TableReturned ==
    /\ pc = "rows" /\ rows_left = 0
    /\ pc' = "returned"
    /\ UNCHANGED <<results, rows_left, points_vars, build_vars, main_vars, doc_vars, log>>

TableNext ==
    \/ TableRowSkipped
    \/ TableRowRecorded
    \/ TableRowRaises
    \/ TableReturned

SpecTable == TableInit /\ [][TableNext]_vars

-----------------------------------------------------------------------------
(* SpecLocate: the two locators of extract_tournament_results.  A result   *)
(* document is [title, after, tables]: whether a span with id "LabTitle"   *)
(* and a text containing "Final table" exists, the first table after that  *)
(* span (0 when none follows), and the tables of the document in document  *)
(* order, each with the table that encloses it (0 for none) and whether    *)
(* its own rows hold the player-list header (an anchor with id "LBName" or *)
(* the text "Player")                                                      *)

\* Largest number of tables of a result document
MaxTables == 3

\* The tables that enclose table j
RECURSIVE Ancestors(_, _)
Ancestors(tables, j) ==
    IF tables[j].parent = 0 THEN {}
    ELSE {tables[j].parent} \cup Ancestors(tables, tables[j].parent)

\* The table sequences that are the document order of some nesting: a
\* table is enclosed by the table before it, by a table enclosing that one,
\* or by none
TableLists ==
    {t \in UNION {[1..n -> [parent : 0..MaxTables, header : BOOLEAN]] :
                     n \in 0..MaxTables} :
        /\ \A j \in DOMAIN t : t[j].parent < j
        /\ \A j \in DOMAIN t :
              \/ t[j].parent = 0
              \/ t[j].parent = j - 1
              \/ t[j].parent \in Ancestors(t, j - 1)}

\* The result documents tried
ResultDocs ==
    {[title |-> FALSE, after |-> 0, tables |-> t] : t \in TableLists}
        \cup UNION {{[title |-> TRUE, after |-> a, tables |-> t] :
                        a \in 0..Len(t)} : t \in TableLists}

\* outer = title_span.find_next("table"); target = outer.find("table"):
\* the first table inside the first table after the title, or 0 (None)
primary_locator(doc) ==
    IF doc.title /\ doc.after # 0 /\ doc.after < Len(doc.tables)
                 /\ doc.tables[doc.after + 1].parent = doc.after
    THEN doc.after + 1
    ELSE 0

\* tbl.find("a", id="LBName") or tbl.find(string=... == "player"): the
\* header is searched in the table and in the tables nested in it
has_player_header(doc, k) ==
    \E j \in DOMAIN doc.tables :
        doc.tables[j].header /\ (j = k \/ k \in Ancestors(doc.tables, j))

\* for tbl in soup.find_all("table"): the first table with the header, or 0
secondary_locator(doc) ==
    IF \E k \in DOMAIN doc.tables : has_player_header(doc, k)
    THEN CHOOSE k \in DOMAIN doc.tables :
            /\ has_player_header(doc, k)
            /\ \A n \in 1..(k - 1) : ~has_player_header(doc, n)
    ELSE 0

\* Mutant of locate: the table with the player-list header is preferred.
locate_header_first(doc) ==
    IF secondary_locator(doc) # 0
    THEN [by |-> "secondary", table |-> secondary_locator(doc)]
    ELSE IF primary_locator(doc) # 0
         THEN [by |-> "primary", table |-> primary_locator(doc)]
         ELSE [by |-> "none", table |-> 0]

\* Lines 148-160: target, and the locator that set it
locate(doc) ==
    IF primary_locator(doc) # 0
    THEN [by |-> "primary", table |-> primary_locator(doc)]
    ELSE IF secondary_locator(doc) # 0
         THEN [by |-> "secondary", table |-> secondary_locator(doc)]
         ELSE [by |-> "none", table |-> 0]

LocateInit ==
    /\ pc = "locate"
    /\ soup \in ResultDocs
    /\ target = <<>>
    /\ PointsIdle /\ BuildIdle /\ ParseIdle /\ MainIdle /\ LogIdle

\* target is set: the parse goes on to the rows of the table
LocateTable ==
    /\ pc = "locate"
    /\ locate(soup).table # 0
    /\ target' = locate(soup)
    /\ pc' = "located"
    /\ UNCHANGED <<soup, log, build_vars, points_vars, parse_vars, main_vars>>

\* if not target: raise RuntimeError("Finner ikke resultat-tabell ...")
LocateRaises ==
    /\ pc = "locate"
    /\ locate(soup).table = 0
    /\ log' = Append(log, [kind |-> "RuntimeError", name |-> "tournament_url"])
    /\ pc' = "raised"
    /\ UNCHANGED <<soup, target, build_vars, points_vars, parse_vars, main_vars>>

LocateNext ==
    \/ LocateTable
    \/ LocateRaises

SpecLocate == LocateInit /\ [][LocateNext]_vars

-----------------------------------------------------------------------------
(* ScheduleParser: extract_series_tournaments.  A schedule document is     *)
(* [LabPast, table, rows]: whether the span with id "LabPast" exists,      *)
(* whether it holds a table, and the <tr> of that table, each a sequence   *)
(* of <td> cells                                                           *)

\* Largest number of rows of the past-events table
MaxSchedRows == 3

\* str.split(sep)
RECURSIVE Split(_, _)
Split(t, sep) ==
    IF \A j \in DOMAIN t : t[j] # sep THEN <<t>>
    ELSE LET j == CHOOSE n \in DOMAIN t :
                      t[n] = sep /\ \A m \in 1..(n - 1) : t[m] # sep
         IN  <<SubSeq(t, 1, j - 1)>> \o Split(SubSeq(t, j + 1, Len(t)), sep)

IsDigits(t) == t # <<>> /\ \A j \in DOMAIN t : t[j] \in AsciiDigits

IsLeap(y) == (y % 4 = 0 /\ y % 100 # 0) \/ y % 400 = 0

DaysIn(m, y) ==
    IF m = 2 THEN (IF IsLeap(y) THEN 29 ELSE 28)
    ELSE IF m \in {4, 6, 9, 11} THEN 30 ELSE 31

\* datetime.strptime(text, "%d.%m.%Y").date() as <<year, month, day>>;
\* <<>> stands for the ValueError of a text that does not match the format
\* or names no day of the calendar
strptime(t) ==
    LET f == Split(t, ".")
    IN  IF \/ Len(f) # 3
           \/ ~IsDigits(f[1]) \/ ~IsDigits(f[2]) \/ ~IsDigits(f[3])
           \/ Len(f[1]) > 2 \/ Len(f[2]) > 2 \/ Len(f[3]) # 4
        THEN <<>>
        ELSE LET d == DecimalValue(f[1])
                 m == DecimalValue(f[2])
                 y == DecimalValue(f[3])
             IN  IF y >= 1 /\ m \in 1..12 /\ d >= 1 /\ d <= DaysIn(m, y)
                 THEN <<y, m, d>>
                 ELSE <<>>

\* season_label(start_year): "2002/2003"
season_label(start_year) == <<start_year, "/", start_year + 1>>

\* season_date_range(start_year): the texts "01.07.<start_year>" and
\* "30.06.<start_year + 1>" as extract_series_tournaments parses them
season_date_range(start_year) ==
    [start |-> <<start_year, 7, 1>>, end |-> <<start_year + 1, 6, 30>>]

\* Mutant of InRange: the end of the range is not checked.
InRangeOpenEnd(date, range) == ~LexGreater(range.start, date)

\* start_date <= tour_date <= end_date
InRange(date, range) ==
    ~LexGreater(range.start, date) /\ ~LexGreater(date, range.end)

SERIES_URL == <<"https://stiga.trefik.cz/ithf/ranking/", "serial.aspx?ID=220004">>

\* urljoin(series_url, link["href"]) for an href relative to the series page
urljoin(base, href) == <<base[1], href>>

\* rows[1:] if len(rows) > 1 else rows
LoopRows(rows) == IF Len(rows) > 1 THEN Tail(rows) ELSE rows

\* The body of the row loop: the tournament appended for the row, as a
\* list of one element, or the empty list when the row is skipped
ScheduleRow(cols, range) ==
    IF Len(cols) < 2 THEN <<>>
    ELSE LET tour_date == strptime(get_text(cols[1]))
         IN  IF tour_date = <<>> THEN <<>>
             ELSE IF ~InRange(tour_date, range) THEN <<>>
             ELSE IF cols[2].kind # "a" THEN <<>>
             ELSE <<[date |-> tour_date,
                     name |-> get_text(cols[2]),
                     url  |-> urljoin(SERIES_URL, cols[2].href)]>>

\* extract_series_tournaments(session, series_url, start, end) on the
\* fetched document: the RuntimeError of a missing section or table, or the
\* list of tournaments in range sorted by date
extract_series_tournaments(page, range) ==
    IF ~page.LabPast \/ ~page.table
    THEN [raised |-> TRUE, tournaments |-> <<>>]
    ELSE LET rows == LoopRows(page.rows)
         IN  [raised      |-> FALSE,
              tournaments |-> sorted_by_date(
                  Flatten([j \in DOMAIN rows |-> ScheduleRow(rows[j], range)]))]

\* The date texts tried: the two ends of the season 2002/2003, the days
\* next to them, short fields, a day that does not exist, another format,
\* no text, a header text
DateTexts ==
    {<<"0", "1", ".", "0", "7", ".", "2", "0", "0", "2">>,
     <<"3", "0", ".", "0", "6", ".", "2", "0", "0", "3">>,
     <<"3", "0", ".", "0", "6", ".", "2", "0", "0", "2">>,
     <<"0", "1", ".", "0", "7", ".", "2", "0", "0", "3">>,
     <<"1", "4", ".", "0", "9", ".", "2", "0", "0", "2">>,
     <<"1", ".", "2", ".", "2", "0", "0", "3">>,
     <<"3", "1", ".", "0", "2", ".", "2", "0", "0", "3">>,
     <<"2", "0", "0", "2", "-", "0", "9", "-", "1", "4">>,
     <<>>,
     <<"D", "a", "t", "e">>}

\* The second cells tried: a link, and a name without a link
EntryCells ==
    {[kind |-> "a", href |-> "turnaj.aspx?id=1", text |-> <<"T", "1">>],
     [kind |-> "text", text |-> <<"T", "2">>]}

\* The rows tried: a date cell and an entry cell, or a single cell
ScheduleRows ==
    {<<[kind |-> "text", text |-> d], e>> : d \in DateTexts, e \in EntryCells}
        \cup {<<[kind |-> "text", text |-> <<"x">>]>>}

\* The documents tried: without the section, without the table, and with
\* every table of at most MaxSchedRows rows
SchedulePages ==
    {[LabPast |-> FALSE, table |-> FALSE, rows |-> <<>>],
     [LabPast |-> TRUE,  table |-> FALSE, rows |-> <<>>]}
        \cup {[LabPast |-> TRUE, table |-> TRUE, rows |-> r] :
                r \in UNION {[1..n -> ScheduleRows] : n \in 0..MaxSchedRows}}

\* The date range of the parsed season, 2002/2003
SeasonRange == season_date_range(2002)

ScheduleInit ==
    /\ pc = "parse"
    /\ soup \in SchedulePages
    /\ target = <<>>
    /\ PointsIdle /\ BuildIdle /\ ParseIdle /\ MainIdle /\ LogIdle

\* extract_series_tournaments returns the list of tournaments
ReturnTournaments ==
    /\ pc = "parse"
    /\ ~extract_series_tournaments(soup, SeasonRange).raised
    /\ tournaments' = extract_series_tournaments(soup, SeasonRange).tournaments
    /\ pc' = "returned"
    /\ UNCHANGED <<i, all_points, all_places, t_meta, scraped, df, df2,
                   points_vars, parse_vars, main_vars, doc_vars, log>>

\* extract_series_tournaments raises RuntimeError: the section or its table
\* is missing
ScheduleRaises ==
    /\ pc = "parse"
    /\ extract_series_tournaments(soup, SeasonRange).raised
    /\ log' = Append(log, [kind |-> "RuntimeError", name |-> "LabPast"])
    /\ pc' = "raised"
    /\ UNCHANGED <<build_vars, points_vars, parse_vars, main_vars, doc_vars>>

ScheduleNext ==
    \/ ReturnTournaments
    \/ ScheduleRaises

SpecSchedule == ScheduleInit /\ [][ScheduleNext]_vars

-----------------------------------------------------------------------------
(* Spec: main, run repeatedly against the stored file                       *)

\* Number of runs of main
MaxRuns == 2

\* season_years as main computes it during the season 2003/2004
season_years == <<2002, 2003>>

\* A row of the past-events table of the series page
PastRow(date_text, n, href) ==
    <<[kind |-> "text", text |-> date_text],
      [kind |-> "a", href |-> href, text |-> <<"T", n>>]>>

\* The series page: a header row and three tournaments, the newest first
SeriesPage ==
    [LabPast |-> TRUE, table |-> TRUE,
     rows |-> <<<<[kind |-> "text", text |-> <<"D", "a", "t", "e">>],
                  [kind |-> "text", text |-> <<"N", "a", "m", "e">>]>>,
                PastRow(<<"0", "4", ".", "1", "0", ".", "2", "0", "0", "3">>, "3", "turnaj.aspx?id=3"),
                PastRow(<<"0", "1", ".", "0", "2", ".", "2", "0", "0", "3">>, "2", "turnaj.aspx?id=2"),
                PastRow(<<"1", "4", ".", "0", "9", ".", "2", "0", "0", "2">>, "1", "turnaj.aspx?id=1")>>]

\* The documents the request for the series page can return: the series
\* page, and a page without the past-events section
SeriesDocs ==
    {SeriesPage, [LabPast |-> FALSE, table |-> FALSE, rows |-> <<>>]}

\* The tournaments of the series page, over all seasons
AllTournaments ==
    Flatten([y \in DOMAIN season_years |->
        extract_series_tournaments(SeriesPage,
            season_date_range(season_years[y])).tournaments])

\* The placement maps the result documents yield in the runs of main
MainMaps ==
    {<<>>,
     <<[k |-> "A", v |-> 1], [k |-> "B", v |-> 3]>>,
     <<[k |-> "B", v |-> 1]>>}

\* JSON values, as json.dump writes them: a str becomes a string, an int a
\* number, a dict an object with its items in the order of the dict
JString(s) == [json |-> "string", v |-> s]

JNumber(n) == [json |-> "number", v |-> n]

JObject(members) == [json |-> "object", members |-> members]

\* The value of the member of a JSON object with the given name
Member(obj, name) ==
    obj.members[CHOOSE j \in DOMAIN obj.members : obj.members[j].k = name].v

\* json.dump of the record of one tournament
dump_record(rec) ==
    JObject(<<[k |-> "season",        v |-> JString(rec.season)],
              [k |-> "name",          v |-> JString(rec.name)],
              [k |-> "date",          v |-> JString(rec.date)],
              [k |-> "url",           v |-> JString(rec.url)],
              [k |-> "participants",  v |-> JNumber(rec.participants)],
              [k |-> "winner",        v |-> JString(rec.winner)],
              [k |-> "winner_points", v |-> JNumber(rec.winner_points)],
              [k |-> "results",
               v |-> JObject([j \in DOMAIN rec.results |->
                                [k |-> rec.results[j].k,
                                 v |-> JNumber(rec.results[j].v)]])]>>)

\* json.load of the record of one tournament
load_record(obj) ==
    [season        |-> Member(obj, "season").v,
     name          |-> Member(obj, "name").v,
     date          |-> Member(obj, "date").v,
     url           |-> Member(obj, "url").v,
     participants  |-> Member(obj, "participants").v,
     winner        |-> Member(obj, "winner").v,
     winner_points |-> Member(obj, "winner_points").v,
     results       |-> LET r == Member(obj, "results").members
                       IN  [j \in DOMAIN r |-> [k |-> r[j].k, v |-> r[j].v.v]]]

\* load_data(): json.load of the file, {"tournaments": {}} without a file.
\* The file is <<>> while it does not exist, else <<document>>; data is the
\* dict under "tournaments".
load_data(file) ==
    IF file = <<>> THEN <<>>
    ELSE LET t == Member(file[1], "tournaments").members
         IN  [j \in DOMAIN t |-> [k |-> t[j].k, v |-> load_record(t[j].v)]]

\* save_data(data): json.dump of {"tournaments": {url: record}} replaces
\* the content of the file
save_data(d) ==
    <<JObject(<<[k |-> "tournaments",
                 v |-> JObject([j \in DOMAIN d |->
                                  [k |-> d[j].k, v |-> dump_record(d[j].v)]])]>>)>>

\* t_list = [t for t in data["tournaments"].values() if t["season"] == label]
SeasonList(d, label) ==
    LET values == [j \in DOMAIN d |-> d[j].v]
    IN  SelectSeq(values, LAMBDA t : t.season = label)

\* session.get(url): a request, as recorded in the order of the run
Request(url) == [op |-> "get", url |-> url]

\* time.sleep(SLEEP_BETWEEN)
Sleep == [op |-> "sleep", url |-> <<>>]

\* print(...): a message of main, with the season or tournament it names
Message(kind, name) == [kind |-> kind, name |-> name]

MainInit ==
    /\ pc = "load"
    /\ run = 1
    /\ disk = <<>>
    /\ data = <<>>
    /\ year = 0
    /\ tournaments = <<>>
    /\ i = 0
    /\ pages = [y \in DOMAIN season_years |-> NoTable]
    /\ fetched = <<>>
    /\ log = <<>>
    /\ all_points = <<>> /\ all_places = <<>> /\ t_meta = <<>>
    /\ scraped = <<>> /\ df = NoTable /\ df2 = NoTable
    /\ PointsIdle /\ ParseIdle /\ DocIdle

main_frame == <<all_points, all_places, t_meta, scraped, df, df2,
                points_vars, parse_vars, doc_vars>>

\* data = load_data()
LoadData ==
    /\ pc = "load"
    /\ data' = load_data(disk)
    /\ year' = 1
    /\ fetched' = <<>>
    /\ log' = <<>>
    /\ pc' = "season"
    /\ UNCHANGED <<disk, run, pages, tournaments, i, main_frame>>

\* tournaments = extract_series_tournaments(session, SERIES_URL, start, end)
ListSeason ==
    /\ pc = "season"
    /\ year <= Len(season_years)
    /\ \E page \in SeriesDocs :
        LET r == extract_series_tournaments(page, season_date_range(season_years[year]))
        IN  /\ ~r.raised
            /\ tournaments' = r.tournaments
    /\ i' = 1
    /\ fetched' = Append(fetched, Request(SERIES_URL))
    /\ pc' = "tournament"
    /\ UNCHANGED <<data, disk, year, run, pages, log, main_frame>>

\* extract_series_tournaments raises: the message is printed and the season
\* is skipped (continue)
ListSeasonRaises ==
    /\ pc = "season"
    /\ year <= Len(season_years)
    /\ \E page \in SeriesDocs :
        extract_series_tournaments(page, season_date_range(season_years[year])).raised
    /\ fetched' = Append(fetched, Request(SERIES_URL))
    /\ log' = Append(log, Message("season failed", season_label(season_years[year])))
    /\ year' = year + 1
    /\ UNCHANGED <<pc, data, disk, run, pages, tournaments, i, main_frame>>

\* Mutant of SkipStored: a stored tournament is scraped and stored again.
ScrapeStoredAgain ==
    /\ pc = "tournament"
    /\ i <= Len(tournaments)
    /\ Has(data, tournaments[i].url)
    /\ \E res \in MainMaps \ {<<>>} :
        data' = Put(data, tournaments[i].url,
                    StoredRecord(season_label(season_years[year]), tournaments[i], res))
    /\ fetched' = fetched \o <<Request(tournaments[i].url), Sleep>>
    /\ i' = i + 1
    /\ UNCHANGED <<pc, disk, year, run, pages, tournaments, log, main_frame>>

\* if t["url"] in data["tournaments"]: continue
SkipStored ==
    /\ pc = "tournament"
    /\ i <= Len(tournaments)
    /\ Has(data, tournaments[i].url)
    /\ i' = i + 1
    /\ UNCHANGED <<pc, data, disk, year, run, pages, tournaments, fetched, log,
                   main_frame>>

\* Mutant of StoreScraped: the file is written after every record.
StoreScrapedAndSave ==
    /\ pc = "tournament"
    /\ i <= Len(tournaments)
    /\ ~Has(data, tournaments[i].url)
    /\ \E res \in MainMaps \ {<<>>} :
        data' = Put(data, tournaments[i].url,
                    StoredRecord(season_label(season_years[year]), tournaments[i], res))
    /\ disk' = save_data(data')
    /\ fetched' = fetched \o <<Request(tournaments[i].url), Sleep>>
    /\ i' = i + 1
    /\ UNCHANGED <<pc, year, run, pages, tournaments, log, main_frame>>

\* extract_tournament_results returns a non-empty map: the record is
\* stored, then time.sleep(SLEEP_BETWEEN)
StoreScraped ==
    /\ pc = "tournament"
    /\ i <= Len(tournaments)
    /\ ~Has(data, tournaments[i].url)
    /\ \E res \in MainMaps \ {<<>>} :
        data' = Put(data, tournaments[i].url,
                    StoredRecord(season_label(season_years[year]), tournaments[i], res))
    /\ fetched' = fetched \o <<Request(tournaments[i].url), Sleep>>
    /\ i' = i + 1
    /\ UNCHANGED <<pc, disk, year, run, pages, tournaments, log, main_frame>>

\* extract_tournament_results returns an empty map: min() of an empty
\* sequence raises ValueError outside the try block and main ends
EmptyResultsRaise ==
    /\ pc = "tournament"
    /\ i <= Len(tournaments)
    /\ ~Has(data, tournaments[i].url)
    /\ <<>> \in MainMaps
    /\ fetched' = Append(fetched, Request(tournaments[i].url))
    /\ log' = Append(log, Message("ValueError", <<>>))
    /\ pc' = "crashed"
    /\ UNCHANGED <<data, disk, year, run, pages, tournaments, i, main_frame>>

\* extract_tournament_results raises: the message is printed and the
\* tournament is skipped (continue)
ScrapeSkipped ==
    /\ pc = "tournament"
    /\ i <= Len(tournaments)
    /\ ~Has(data, tournaments[i].url)
    /\ fetched' = Append(fetched, Request(tournaments[i].url))
    /\ log' = Append(log, Message("scrape failed", tournaments[i].name))
    /\ i' = i + 1
    /\ UNCHANGED <<pc, data, disk, year, run, pages, tournaments, main_frame>>

\* The tournament loop of a season is exhausted
NextSeason ==
    /\ pc = "tournament"
    /\ i > Len(tournaments)
    /\ year' = year + 1
    /\ pc' = "season"
    /\ UNCHANGED <<data, disk, run, pages, tournaments, i, fetched, log, main_frame>>

\* save_data(data), after the loop over the seasons
SaveData ==
    /\ pc = "season"
    /\ year > Len(season_years)
    /\ disk' = save_data(data)
    /\ pc' = "pages"
    /\ UNCHANGED <<data, year, run, pages, tournaments, i, fetched, log, main_frame>>

\* The seasons with stored tournaments, in the order of season_years
BuiltSeasons(d) ==
    SelectSeq([y \in DOMAIN season_years |-> season_years[y]],
              LAMBDA sy : SeasonList(d, season_label(sy)) # <<>>)

\* The loop that builds the season pages: a season with stored tournaments
\* gets its table written ("Lager HTML" is printed), the file of any other
\* season stays as it is
BuildPages ==
    /\ pc = "pages"
    /\ pages' = [y \in DOMAIN season_years |->
                    LET t_list == SeasonList(data, season_label(season_years[y]))
                    IN  IF t_list = <<>> THEN pages[y]
                        ELSE PrescrapedTable(t_list)]
    /\ log' = log \o [j \in DOMAIN BuiltSeasons(data) |->
                        Message("page", season_label(BuiltSeasons(data)[j]))]
    /\ pc' = "done"
    /\ UNCHANGED <<data, disk, year, run, tournaments, i, fetched, main_frame>>

\* main is started again
StartRun ==
    /\ pc \in {"done", "crashed"}
    /\ run < MaxRuns
    /\ run' = run + 1
    /\ pc' = "load"
    /\ UNCHANGED <<data, disk, year, pages, tournaments, i, fetched, log, main_frame>>

Next ==
    \/ LoadData
    \/ ListSeason
    \/ ListSeasonRaises
    \/ SkipStored
    \/ StoreScraped
    \/ EmptyResultsRaise
    \/ ScrapeSkipped
    \/ NextSeason
    \/ SaveData
    \/ BuildPages
    \/ StartRun

Spec == MainInit /\ [][Next]_vars

\* main runs to its end, and it is started again while runs are left: no
\* step of main waits forever.  The weak fairness of the listing of a
\* season and of the page build is stated through their enabling
\* conditions, pc = "season" with a season left and pc = "pages".
FairSpec ==
    /\ MainInit /\ [][Next]_vars
    /\ WF_vars(LoadData)
    /\ WF_vars(SkipStored)
    /\ WF_vars(StoreScraped \/ EmptyResultsRaise \/ ScrapeSkipped)
    /\ WF_vars(NextSeason)
    /\ WF_vars(SaveData)
    /\ WF_vars(StartRun)
    /\ []<>~(pc = "season" /\ year <= Len(season_years))
    /\ []<>(pc # "pages")

-----------------------------------------------------------------------------
(* Properties of the points lookup (SpecPoints) *)

\* C1: once a placement has been looked up, the points are the table value
\* for a placement in 1..50 and 0 for every placement below 1 or above 50;
\* the lookup can be taken for every placement (it never fails).
PointsMatchTable ==
    /\ pc = "lookup" => ENABLED Lookup
    /\ pc = "looked" =>
        /\ (1 <= place /\ place <= 50) => pts = PLACEMENT_TO_VALUE[place]
        /\ (place < 1 \/ place > 50) => pts = 0

\* C1 witness: the last placement of the table has been looked up.
PointsLastEntryLookedUp ==
    pc = "looked" /\ place = 50 /\ pts = 2

-----------------------------------------------------------------------------
(* Properties of the produced tables (SpecBuild) *)

\* The tables produced so far: by build_results_dataframe, and by
\* build_df_from_tournament_data
Tables ==
    (IF pc \in {"rebuilt", "prescraped"} THEN {df} ELSE {})
        \cup (IF pc = "prescraped" THEN {df2} ELSE {})

\* The players with a recorded placement in some tournament of the season
Observed ==
    UNION {{scraped[j][n].k : n \in DOMAIN scraped[j]} : j \in DOMAIN scraped}

\* The columns of a table row with points > 0
PlayedCols(row) == {c \in DOMAIN row.cols : row.cols[c] > 0}

RECURSIVE SumCols(_, _)
SumCols(row, S) ==
    IF S = {} THEN 0
    ELSE LET c == CHOOSE x \in S : TRUE
         IN  row.cols[c] + SumCols(row, S \ {c})

Min(a, b) == IF a < b THEN a ELSE b

\* The composite key (TopNSum, Wins, BestSingleTournamentScore, AveragePoints)
CompositeKey(row) ==
    <<row.Topp, row.Seire,
      CHOOSE m \in Range(row.cols) : \A v \in Range(row.cols) : v <= m,
      row.Snitt>>

\* C2 (as claimed): in every produced table a player ranked before another
\* has a composite key that is lexicographically greater or equal.
OrderedByCompositeKey ==
    \A t \in Tables : \A a, b \in DOMAIN t.rows :
        a < b => ~LexGreater(CompositeKey(t.rows[b]), CompositeKey(t.rows[a]))

\* C3: the ranks of a produced table are 1..K in table order, K the number
\* of distinct observed players, and every observed player has one row.
RanksAreDense ==
    \A t \in Tables :
        /\ Len(t.rows) = Cardinality(Observed)
        /\ {t.rows[j].name : j \in DOMAIN t.rows} = Observed
        /\ \A j \in DOMAIN t.rows : t.rows[j].Rank = j

\* C3 witness: both tables exist and two players with an identical composite
\* key hold ranks 1 and 2.
TiedPlayersRanked ==
    /\ pc = "prescraped"
    /\ \A t \in {df, df2} :
        /\ Len(t.rows) = 2
        /\ CompositeKey(t.rows[1]) = CompositeKey(t.rows[2])
        /\ t.rows[1].Rank = 1 /\ t.rows[2].Rank = 2

CountedIsMinPlayedTopN ==
    \A t \in Tables : \A j \in DOMAIN t.rows :
        LET row == t.rows[j]
        IN  /\ row.Tellende = Min(row.Spilt, TOP_N)
            /\ row.Tellende <= row.Spilt
            /\ row.Tellende <= TOP_N

\* C5 witness: in both tables a player has played more than TOP_N
\* tournaments and counts TOP_N of them.
CountedIsCapped ==
    /\ pc = "prescraped"
    /\ \A t \in {df, df2} : \E j \in DOMAIN t.rows :
        t.rows[j].Spilt > TOP_N /\ t.rows[j].Tellende = TOP_N

\* The tournaments in which the player's recorded placement satisfies Q
PlacedWith(name, Q(_)) ==
    {j \in DOMAIN scraped : Has(scraped[j], name) /\ Q(Get(scraped[j], name))}

\* C6: Wins counts the tournaments with recorded placement 1 and Podiums
\* those with recorded placement <= 3; a tournament without a placement of
\* the player counts for neither.
WinsAndPodiumsCountPlacements ==
    \A t \in Tables : \A j \in DOMAIN t.rows :
        LET row == t.rows[j]
        IN  /\ row.Seire = Cardinality(PlacedWith(row.name, LAMBDA q : q = 1))
            /\ row.Pall  = Cardinality(PlacedWith(row.name, LAMBDA q : q <= 3))

\* C6 witness: a player won two different tournaments (Wins = 2, Podiums =
\* 2) while another player has a podium that is no win and misses a
\* tournament.
TwoWinsTwoPodiums ==
    /\ pc = "prescraped"
    /\ \A t \in {df, df2} :
        /\ \E j \in DOMAIN t.rows : t.rows[j].Seire = 2 /\ t.rows[j].Pall = 2
        /\ \E j \in DOMAIN t.rows :
            /\ t.rows[j].Seire = 0 /\ t.rows[j].Pall = 1
            /\ \E n \in DOMAIN scraped : ~Has(scraped[n], t.rows[j].name)

Chronological(meta) ==
    \A a, b \in DOMAIN meta :
        a < b => ~LexGreater(meta[a].date, meta[b].date)

\* C8: a produced table has exactly one column per tournament handed to the
\* builder, labelled #1..#T in that order, every row has exactly these
\* columns, and the tournaments behind #1..#T are in ascending date order.
OneColumnPerTournament ==
    \A t \in Tables :
        LET T == Len(tournaments)
        IN  /\ t.columns = [j \in 1..T |-> Key(j)]
            /\ \A j \in DOMAIN t.rows : DOMAIN t.rows[j].cols = {Key(n) : n \in 1..T}
            /\ Len(t.meta) = T
            /\ \A j \in 1..T : t.meta[j].key = Key(j)
            /\ {t.meta[j].url : j \in 1..T} = {tournaments[j].url : j \in 1..T}
            /\ Chronological(t.meta)

\* C8 witness: a table of the full rebuild for a season whose first
\* tournament has no player with a placement.
ColumnsWithEmptyTournament ==
    /\ pc = "rebuilt"
    /\ Len(tournaments) = MaxT
    /\ scraped[1] = <<>>
    /\ df.rows # <<>>

\* The placement map the result document of the tournament url yielded
MapOf(url) ==
    scraped[CHOOSE k \in DOMAIN scraped : tournaments[k].url = url]

\* The distinct player names with a recorded placement in a placement map
NamesIn(res) == {res[n].k : n \in DOMAIN res}

\* C11: the participants value reported for a tournament, in the stats the
\* full rebuild collects and in the metadata of both produced tables, is the
\* number of distinct player names with a placement in the tournament's
\* placement map.
ParticipantsCountPlayers ==
    /\ \A j \in DOMAIN t_meta :
          t_meta[j].participants = Cardinality(NamesIn(scraped[j]))
    /\ \A t \in Tables : \A j \in DOMAIN t.meta :
          t.meta[j].participants = Cardinality(NamesIn(MapOf(t.meta[j].url)))

\* C11 witness: both tables report a tournament with two participants one
\* of whom scored no points, and a tournament with one participant.
ParticipantsTwoAndOne ==
    /\ pc = "prescraped"
    /\ \A t \in {df, df2} :
        /\ \E j \in DOMAIN t.meta :
            /\ t.meta[j].participants = 2
            /\ \E n \in DOMAIN MapOf(t.meta[j].url) :
                  Points(MapOf(t.meta[j].url)[n].v) = 0
        /\ \E j \in DOMAIN t.meta : t.meta[j].participants = 1

\* C13: in the full rebuild a failed extraction ends the build with a
\* RuntimeError that names the offending tournament: the error is reported
\* exactly when the build has ended in it, no table and no metadata are
\* returned, only the tournaments before the offending one were extracted
\* and no further step (no later fetch) is taken; a returned table comes
\* with no error.
AbortOnError ==
    /\ log # <<>> <=> pc = "raised"
    /\ pc = "raised" =>
        /\ log = <<[kind |-> "RuntimeError", name |-> tournaments[i].name]>>
        /\ df = NoTable /\ df2 = NoTable
        /\ Len(scraped) = i - 1
        /\ ~ENABLED BuildNext
    /\ Tables # {} => Len(scraped) = Len(tournaments)

\* C13 witness: the extraction of a tournament that is followed by another
\* one in the schedule has failed.
AbortedBeforeLastTournament ==
    /\ pc = "raised"
    /\ i < Len(tournaments)
    /\ log[1].name = tournaments[i].name

\* C19 (as claimed): in every produced table every observed player has a
\* row, and the cell of a player in the column of a tournament holds the
\* points of the player's recorded placement in that tournament, and 0 when
\* the player has no recorded placement in it.
CellsHoldPointsOfPlacement ==
    \A t \in Tables :
        /\ {t.rows[j].name : j \in DOMAIN t.rows} = Observed
        /\ \A j \in DOMAIN t.rows : \A c \in DOMAIN t.meta :
              LET res == MapOf(t.meta[c].url)
                  name == t.rows[j].name
              IN  t.rows[j].cols[t.meta[c].key] =
                      IF Has(res, name) THEN Points(Get(res, name)) ELSE 0

\* The lowest placement of a non-empty placement map
MinPlacement(res) ==
    CHOOSE m \in {res[n].v : n \in DOMAIN res} :
        \A n \in DOMAIN res : m <= res[n].v

\* The position of the first entry of the map with placement m
FirstWith(res, m) ==
    CHOOSE n \in DOMAIN res :
        res[n].v = m /\ \A k \in 1..(n - 1) : res[k].v # m

FlowsGiveSameStandings ==
    (/\ pc = "prescraped"
     /\ [c \in DOMAIN df2.meta |-> df2.meta[c].url]
            = [c \in DOMAIN df.meta |-> df.meta[c].url]) =>
        /\ df2.columns = df.columns
        /\ df2.rows = df.rows

\* C28 (as claimed): in every table, for every player, Seire (wins) <=
\* Pallplasseringer (podiums) <= Spilt (played) <= number of tournament
\* columns, and best single score <= Topp (top-N sum) <= 100 * Tellende
\* (counted), whatever integers the placement maps hold.
MetricsAreOrdered ==
    \A t \in Tables : \A j \in DOMAIN t.rows :
        LET row == t.rows[j]
        IN  /\ row.Seire <= row.Pall
            /\ row.Pall <= row.Spilt
            /\ row.Spilt <= Len(t.columns)
            /\ \A c \in DOMAIN row.cols : row.cols[c] <= row.Topp
            /\ row.Topp <= 100 * row.Tellende

-----------------------------------------------------------------------------
(* Properties of the result table parser (SpecParse) *)

\* C10 (as claimed): every placement recorded in the placement map is a
\* positive integer.
PlacementsArePositive ==
    \A j \in DOMAIN results : results[j].v >= 1

\* A data row (not a header, at least two cells) none of whose first two
\* cells reads as an integer with an optional trailing period
NoIntegerPlacement(row) ==
    /\ ~row.head /\ Len(row.cols) >= 2
    /\ \A j \in 1..2 : ~IntParses(RStrip(get_text(row.cols[j]), "."))

\* A data row without a link to a player profile
NoPlayerLink(row) ==
    /\ ~row.head /\ Len(row.cols) >= 2
    /\ PlayerCell(row.cols) = 0

\* C21 (as claimed): a result row whose first two cells are both
\* non-numeric, or that has no player-profile link, is skipped without
\* raising, so the row loop is never left by an exception on such a row and
\* the rows before and after it are still parsed.
UnreadableRowsAreSkipped ==
    pc = "raised" =>
        \A row \in TableRows :
            (NoIntegerPlacement(row) \/ NoPlayerLink(row)) =>
                RowOutcome(row).kind = "skip"

-----------------------------------------------------------------------------
(* Properties of the row loop on a whole table (SpecTable) *)

\* The rows of the table read so far
RowsRead == SubSeq(target, 1, Len(target) - rows_left)

\* The positions of the rows read so far that were recorded under name
RecordedAs(name) ==
    {j \in DOMAIN RowsRead :
        /\ RowOutcome(RowsRead[j]).kind = "put"
        /\ RowOutcome(RowsRead[j]).name = name}

\* The normalized names of the rows read so far that were recorded
NamesRead ==
    {RowOutcome(RowsRead[j]).name :
        j \in {n \in DOMAIN RowsRead : RowOutcome(RowsRead[n]).kind = "put"}}

\* C23: the placement map holds exactly one entry for every normalized
\* name recorded so far, with the placement of the last row read under
\* that name, so a name that two rows normalize to is counted once in
\* len(results), the participants.
LastWriteWins ==
    /\ Len(results) = Cardinality(NamesRead)
    /\ \A name \in NamesRead :
          /\ Cardinality({j \in DOMAIN results : results[j].k = name}) = 1
          /\ LET last == CHOOSE j \in RecordedAs(name) :
                             \A n \in RecordedAs(name) : n <= j
             IN  Get(results, name) = RowOutcome(RowsRead[last]).place

\* C23 witness: the table has the rows "1." / " A  B" and "2" / "A B";
\* the map returned holds the one entry "A B" -> 2.
SameNameTwice ==
    /\ pc = "returned"
    /\ target = <<PlayerRow(<<"1", ".">>, <<" ", "A", " ", " ", "B">>),
                  PlayerRow(<<"2">>, <<"A", " ", "B">>)>>
    /\ results = <<[k |-> <<"A", " ", "B">>, v |-> 2]>>

-----------------------------------------------------------------------------
(* Properties of the table locators (SpecLocate) *)

\* The tables nested directly in the first table after the title
NestedAfterTitle ==
    IF soup.title /\ soup.after # 0
    THEN {j \in DOMAIN soup.tables : soup.tables[j].parent = soup.after}
    ELSE {}

\* The tables that hold a player-list header, in their own rows or in a
\* table nested in them
WithPlayerHeader ==
    {k \in DOMAIN soup.tables :
        \E j \in DOMAIN soup.tables :
            soup.tables[j].header /\ (j = k \/ k \in Ancestors(soup.tables, j))}

\* C20: when a table is nested after the title, the located table is the
\* first such table and comes from the primary locator, whatever headers
\* the document has; the secondary locator sets the table, the first one
\* with a player-list header, only when no table is nested after the
\* title; the parse fails if and only if there is neither.
LocatorsInOrder ==
    /\ pc = "located" =>
        /\ NestedAfterTitle # {} =>
            /\ target.by = "primary"
            /\ target.table \in NestedAfterTitle
            /\ \A j \in NestedAfterTitle : target.table <= j
        /\ NestedAfterTitle = {} =>
            /\ target.by = "secondary"
            /\ target.table \in WithPlayerHeader
            /\ \A k \in WithPlayerHeader : target.table <= k
    /\ pc = "raised" => NestedAfterTitle = {} /\ WithPlayerHeader = {}
    /\ (NestedAfterTitle = {} /\ WithPlayerHeader = {}) => pc \in {"locate", "raised"}
    /\ pc = "locate" => ENABLED LocateNext

\* C20 witness: a table is nested after the title, a table before it holds
\* a player-list header, and the nested table was located.
PrimaryPreferred ==
    /\ pc = "located"
    /\ target.by = "primary"
    /\ \E k \in WithPlayerHeader : k < target.table /\ k \notin Ancestors(soup.tables, target.table)

-----------------------------------------------------------------------------
(* Properties of the schedule parser (SpecSchedule) *)

\* C16: every returned tournament has a date within the range, both ends
\* included, and the returned list is in ascending order of date.
ReturnedInRangeAndSorted ==
    pc = "returned" =>
        /\ \A j \in DOMAIN tournaments :
            /\ ~LexGreater(SeasonRange.start, tournaments[j].date)
            /\ ~LexGreater(tournaments[j].date, SeasonRange.end)
        /\ \A a, b \in DOMAIN tournaments :
              a < b => ~LexGreater(tournaments[a].date, tournaments[b].date)

\* C16 witness: the table lists the last day of the range before the first
\* day of the range, and both are returned, the first day first.
BothEndsReturnedSorted ==
    /\ pc = "returned"
    /\ Len(soup.rows) = 3
    /\ strptime(get_text(soup.rows[2][1])) = SeasonRange.end
    /\ strptime(get_text(soup.rows[3][1])) = SeasonRange.start
    /\ Len(tournaments) = 2
    /\ tournaments[1].date = SeasonRange.start
    /\ tournaments[2].date = SeasonRange.end

\* A row with at least two cells, a date in the fixed format within the
\* range, and a link in its second cell
Eligible(cols, range) ==
    /\ Len(cols) >= 2
    /\ strptime(get_text(cols[1])) # <<>>
    /\ InRange(strptime(get_text(cols[1])), range)
    /\ cols[2].kind = "a"

\* C17 (as claimed): the parse of a document with the past-events table
\* does not raise, and every row of the table that is not omitted for its
\* date or its missing link, whatever its position, yields exactly one
\* returned tournament.
EveryEligibleRowReturned ==
    /\ (soup.LabPast /\ soup.table) => pc # "raised"
    /\ pc = "returned" =>
          Len(tournaments) =
              Cardinality({j \in DOMAIN soup.rows : Eligible(soup.rows[j], SeasonRange)})

-----------------------------------------------------------------------------
(* Properties of the incremental runs (Spec) *)

\* The ordinal of the tournament url in a table, 0 when it has no column
OrdinalOf(table, url) ==
    IF \E j \in DOMAIN table.meta : table.meta[j].url = url
    THEN CHOOSE j \in DOMAIN table.meta : table.meta[j].url = url
    ELSE 0

\* C9 (as claimed): a tournament that has an ordinal column in a season
\* page keeps that ordinal whenever the page is built again.
OrdinalsAreStable ==
    [][\A y \in DOMAIN season_years : \A j \in DOMAIN AllTournaments :
          OrdinalOf(pages[y], AllTournaments[j].url) # 0 =>
              OrdinalOf(pages'[y], AllTournaments[j].url)
                  = OrdinalOf(pages[y], AllTournaments[j].url)]_vars


\* The result document of the tournament url was requested in this run
Requested(url) ==
    \E j \in DOMAIN fetched : fetched[j].op = "get" /\ fetched[j].url = url

\* A message of this kind that names this season or tournament was printed
\* in this run
Printed(kind, name) ==
    \E j \in DOMAIN log : log[j].kind = kind /\ log[j].name = name

\* C12 (as claimed): in main, every tournament whose result document was
\* requested and extracted without a failure is stored, with the summary
\* participants = 0, winner = "-", winner_points = 0 when its placement map
\* is empty, and the run goes on (it has not ended with an exception).
EmptyMapIsSummarised ==
    \A k \in DOMAIN tournaments :
        (/\ Requested(tournaments[k].url)
         /\ ~Printed("scrape failed", tournaments[k].name)) =>
            /\ pc # "crashed"
            /\ Has(data, tournaments[k].url)
            /\ LET rec == Get(data, tournaments[k].url)
               IN  rec.results = <<>> =>
                       /\ rec.participants = 0
                       /\ rec.winner = "-"
                       /\ rec.winner_points = 0


\* The tournaments of the series page in the season that starts in sy
SeasonTournaments(sy) ==
    extract_series_tournaments(SeriesPage, season_date_range(sy)).tournaments

\* C14 (as claimed): a run of main in which the extraction of a tournament
\* failed (the failure was printed) does not end before the save, and once
\* it has reached the save every tournament of every season whose schedule
\* was listed is stored or was requested in this run.
SkipOnErrorReachesSave ==
    (\E j \in DOMAIN log : log[j].kind = "scrape failed") =>
        /\ pc # "crashed"
        /\ pc \in {"pages", "done"} =>
              \A y \in DOMAIN season_years :
                  ~Printed("season failed", season_label(season_years[y])) =>
                      \A k \in DOMAIN SeasonTournaments(season_years[y]) :
                          LET url == SeasonTournaments(season_years[y])[k].url
                          IN  Requested(url) \/ Has(data, url)


\* C15 (as claimed): any two consecutive requests of a run of main (for the
\* series page or for a result document) are separated by a sleep.
SleepBetweenRequests ==
    \A j \in DOMAIN fetched :
        (j < Len(fetched) /\ fetched[j].op = "get") => fetched[j + 1].op = "sleep"

\* C18 (as claimed): a season whose schedule could not be parsed in a run
\* (the section or its table is missing, so that extract_series_tournaments
\* raises and main prints the failure) gets no standings page built in that
\* run.
FailedScheduleBuildsNoPage ==
    \A y \in DOMAIN season_years :
        Printed("season failed", season_label(season_years[y])) =>
            ~Printed("page", season_label(season_years[y]))


\* The records of the persisted store, as load_data reads them
Stored == load_data(disk)

\* The requests a step adds to those of the run
NewRequests ==
    IF Len(fetched') > Len(fetched)
    THEN SubSeq(fetched', Len(fetched) + 1, Len(fetched'))
    ELSE <<>>

\* C24: no step of any run of main requests the result document of a
\* tournament whose url is in the persisted store, and no step removes or
\* changes a record of the persisted store: the store only grows.
StoredIsNeverRefetched ==
    [][\A j \in DOMAIN Stored :
          /\ Has(load_data(disk'), Stored[j].k)
          /\ Get(load_data(disk'), Stored[j].k) = Stored[j].v
          /\ \A n \in DOMAIN NewRequests :
                NewRequests[n] # Request(Stored[j].k)]_vars

\* C24 witness: the second run has ended; the store holds a tournament
\* that was not requested in this run (it was stored by the first run)
\* next to one that this run requested and stored.
StoredSkippedInSecondRun ==
    /\ run = 2 /\ pc = "done"
    /\ \E a, b \in DOMAIN Stored :
          /\ ~Requested(Stored[a].k)
          /\ Requested(Stored[b].k)


SavedOncePerRun ==
    /\ [][/\ disk' # disk =>
               (pc = "season" /\ year > Len(season_years) /\ pc' = "pages")
          /\ (pc = "season" /\ pc' = "pages") =>
               (year > Len(season_years) /\ disk' = save_data(data))
          /\ pc' = "pages" => pc \in {"season", "pages"}
          /\ pc' = "done" => pc \in {"pages", "done"}
          /\ pages' # pages => (pc = "pages" /\ pc' = "done")]_vars
    /\ [](pc = "crashed" =>
            /\ Stored = SubSeq(data, 1, Len(Stored))
            /\ \A j \in DOMAIN data :
                  Requested(data[j].k) => ~Has(Stored, data[j].k)
            /\ \A j \in DOMAIN log : log[j].kind # "page")

\* C26 witness: a later run has ended with the unhandled error after it
\* had scraped a tournament: the record is in data and not in the file,
\* which holds what an earlier run saved.
CrashedAfterScraping ==
    /\ pc = "crashed" /\ run > 1
    /\ Stored # <<>>
    /\ \E j \in DOMAIN data :
          Requested(data[j].k) /\ ~Has(Stored, data[j].k)

=============================================================================
